---- MODULE Spec2Model ----
(***************************************************************************)
(* Front-end controller of eprint-guessr (static/script.js): the round     *)
(* loader with its bounded retry, the score submission, the session tally  *)
(* and the reset of the slider variant (Spec, FairSpec); the validating    *)
(* submitGuess of the text-input variant (SpecText); the slider transform  *)
(* and the two feedback functions on their own (SpecSlider, SpecFeedback). *)
(*                                                                         *)
(* The script runs on one event loop.  Every action below is one           *)
(* run-to-completion step: an event handler from its entry to its first    *)
(* await (or its return), or the continuation of an async function from    *)
(* the completion of one await to the next.  `await fetch(..)` followed by *)
(* `await response.json()` is one step: the code between the two awaits    *)
(* reads and writes no shared state.                                       *)
(*                                                                         *)
(* The page markup is not part of the script.  The handlers are therefore  *)
(* taken to be callable in every state, except that a click on submitBtn   *)
(* is not delivered while the script has set submitBtn.disabled.           *)
(***************************************************************************)
EXTENDS Integers, Sequences, FiniteSets, TLC

\* ---------------------------------------------------------------- bounds
\* Events the environment starts in one run: clicks, key presses, slider
\* movements and firings of the cache-stats interval timer.  Responses,
\* backoff timers and image events are answers to these and are not counted.
MaxEvents == 3

\* ------------------------------------------------------ program constants
maxRetries == 3
DefaultYear == 2012
DefaultSlider == 50

Null == [null |-> TRUE]

\* ---------------------------------------------------------------- inputs
\* Catalogue the server draws /api/random-paper payloads from.
Papers ==
  { [id |-> 1, title |-> "T1", year |-> 2015, cites |-> 200, image |-> "img1"],
    [id |-> 2, title |-> "T2", year |-> 2003, cites |-> 10, image |-> "img2"] }

\* Ways one attempt of a load can fail.
FailureKinds == {"success_false", "http_error", "transport_error", "timeout_abort"}

\* Ways a score submission can fail before a payload is read.
SubmitFailureKinds == {"http_error", "transport_error"}

\* Axis scores the server answers with (each axis scores 0..5000).
YearScores == {0, 5000}
CiteScores == {2500}

\* /api/submit-guess payloads: total_score is the sum of the two axis scores.
ScoreResponses ==
  { [year_score |-> y, cite_score |-> c, total_score |-> y + c] :
      y \in YearScores, c \in CiteScores }

\* Positions the user moves the two sliders to.
YearChoices == {2015}
SliderChoices == {100}

\* cached_papers values of /api/cache-stats.
CacheCounts == {0, 7}

\* ------------------------------------------------------------ user alerts
AlertNoPaper == "No paper loaded. Please wait for a paper to load."
AlertLoadError == "Error loading paper. Please refresh the page."
AlertNetworkError == "Network error. Please refresh the page and try again."
AlertScoreError == "Error calculating score. Please try again."

VARIABLES
  \* game state (script.js 279-285)
  currentPaper, roundNumber, roundsPlayed, totalScore, roundScores, isLoading,
  \* DOM state written by the script
  loading, gameContainer, guessCard, resultsCard,   \* style.display
  yearGuess, citeGuess,                             \* slider values
  yearValue, citeValue,                             \* slider labels
  submitBtn,                                        \* disabled flag
  paperImage,                                       \* src
  roundNumberDisplay, roundsPlayedDisplay, totalScoreDisplay,
  results,                                          \* the results card's texts
  cacheCount, cacheBadge,
  \* asynchronous executions
  loaders,        \* executions of loadNewPaper past the busy check
  submits,        \* executions of submitGuess awaiting /api/submit-guess
  cacheFetches,   \* executions of updateCacheStats awaiting /api/cache-stats
  \* observation of the run
  alert,          \* message of the alert() raised by the last step, or "none"
  lastStep,       \* the last step: its handler, isLoading at its entry, and
                  \* what it concluded (how a load ended, which round was scored)
  tally           \* per loaded round: recordings; per run: totals for bounds

gameVars == <<currentPaper, roundNumber, roundsPlayed, totalScore, roundScores, isLoading>>
viewVars == <<loading, gameContainer, guessCard, resultsCard>>
inputVars == <<yearGuess, citeGuess, yearValue, citeValue>>
displayVars == <<roundNumberDisplay, roundsPlayedDisplay, totalScoreDisplay>>
cacheVars == <<cacheCount, cacheBadge, cacheFetches>>
vars == <<currentPaper, roundNumber, roundsPlayed, totalScore, roundScores, isLoading,
          loading, gameContainer, guessCard, resultsCard,
          yearGuess, citeGuess, yearValue, citeValue, submitBtn, paperImage,
          roundNumberDisplay, roundsPlayedDisplay, totalScoreDisplay, results,
          cacheCount, cacheBadge, loaders, submits, cacheFetches,
          alert, lastStep, tally>>

\* ---------------------------------------------------------------- helpers
RemoveAt(s, i) == [k \in 1..(Len(s) - 1) |-> IF k < i THEN s[k] ELSE s[k + 1]]

Step(op, info) == [op |-> op, busy |-> isLoading, info |-> info]

\* --------------------------------------------------------- slider transform
\* Math.exp(sliderValue / 20) in fixed point: 100000 * e^(s/20), summed from
\* 30 terms of the power series (term k+1 = term k * s / (20 * (k+1))).
RECURSIVE ExpSeries(_, _, _)
ExpSeries(s, k, term) ==
  IF k = 30 THEN 0
  ELSE term + ExpSeries(s, k + 1, (term * s) \div (20 * (k + 1)))

\* Math.round of a non-negative fixed-point number: nearest integer, half up.
MathRound(scaled) == (scaled + 50000) \div 100000

\* Math.min
MinPicksLarger(a, b) == IF a <= b THEN b ELSE a
Min(a, b) == IF a <= b THEN a ELSE b

sliderToCitations(sliderValue) ==
  LET citations == MathRound((ExpSeries(sliderValue, 0, 100000) - 100000) * 10)
  IN  Min(citations, 10000)

\* ---------------------------------------------------------------- feedback
Abs(x) == IF x < 0 THEN -x ELSE x

\* A feedback message is the template literal the code returns, word by word,
\* with N where ${absDiff} (or absDiff.toLocaleString()) is interpolated and P
\* where ${percentDiff.toFixed(0)} is, followed by the values of these slots
\* in the order they appear.  The leading emoji of each template is left out.
Message(words, values) == [words |-> words, values |-> values]

\* `const diff = guess - actual`
YearDiffSwapped(guess, actual) == actual - guess
YearDiff(guess, actual) == guess - actual

getYearFeedback(guess, actual) ==
  LET diff == YearDiff(guess, actual)
      absDiff == Abs(diff)
  IN  IF diff = 0 THEN Message(<<"Perfect!", "Spot", "on!">>, <<>>)
      ELSE IF absDiff = 1
        THEN IF diff > 0 THEN Message(<<"1", "year", "too", "recent">>, <<>>)
                         ELSE Message(<<"1", "year", "too", "old">>, <<>>)
      ELSE IF absDiff <= 3
        THEN IF diff > 0 THEN Message(<<"N", "years", "too", "recent">>, <<absDiff>>)
                         ELSE Message(<<"N", "years", "too", "old">>, <<absDiff>>)
      ELSE IF absDiff <= 5
        THEN IF diff > 0
             THEN Message(<<"N", "years", "too", "recent", "(getting", "warm)">>,
                          <<absDiff>>)
             ELSE Message(<<"N", "years", "too", "old", "(close!)">>, <<absDiff>>)
      ELSE IF absDiff <= 10
        THEN IF diff > 0 THEN Message(<<"N", "years", "too", "recent">>, <<absDiff>>)
                         ELSE Message(<<"N", "years", "too", "old">>, <<absDiff>>)
      ELSE IF diff > 0
        THEN Message(<<"Way", "too", "recent", "(N", "years", "off)">>, <<absDiff>>)
        ELSE Message(<<"Way", "too", "old", "(N", "years", "off)">>, <<absDiff>>)

\* percentDiff.toFixed(0) for percentDiff = (absDiff / actual) * 100, actual > 0:
\* the quotient rounded to the nearest integer, half up.  (Where 100 * absDiff /
\* actual lies exactly on a half the double can fall just below it and print
\* one less, e.g. 29 / 200; the smallest such actual is 200.)
PercentFixed0(absDiff, actual) == (200 * absDiff + actual) \div (2 * actual)

\* `actual < 50`: the absolute bands apply.
FewCitationsInclusive(actual) == actual <= 50
FewCitations(actual) == actual < 50

\* The comparisons `percentDiff <= k` are made on the exact quotient:
\* 100 * absDiff <= k * actual.  percentDiff is 100 for actual = 0, where only
\* the absolute bands are reached.
getCitationFeedback(guess, actual) ==
  LET diff == guess - actual
      absDiff == Abs(diff)
      pct == IF actual = 0 THEN 100 ELSE PercentFixed0(absDiff, actual)
  IN  IF diff = 0 THEN Message(<<"Exactly", "right!">>, <<>>)
      ELSE IF FewCitations(actual)
        THEN IF absDiff <= 5
               THEN IF diff > 0
                    THEN Message(<<"N", "citations", "too", "high", "(very", "close!)">>,
                                 <<absDiff>>)
                    ELSE Message(<<"N", "citations", "too", "low", "(very", "close!)">>,
                                 <<absDiff>>)
             ELSE IF absDiff <= 20
               THEN IF diff > 0
                    THEN Message(<<"N", "citations", "too", "high">>, <<absDiff>>)
                    ELSE Message(<<"N", "citations", "too", "low">>, <<absDiff>>)
             ELSE IF diff > 0
               THEN Message(<<"Overestimated", "by", "N", "citations">>, <<absDiff>>)
               ELSE Message(<<"Underestimated", "by", "N", "citations">>, <<absDiff>>)
      ELSE IF 100 * absDiff <= 10 * actual
        THEN IF diff > 0
             THEN Message(<<"Slightly", "overestimated", "(N", "citations,", "P%", "off)">>,
                          <<absDiff, pct>>)
             ELSE Message(<<"Slightly", "underestimated", "(N", "citations,", "P%", "off)">>,
                          <<absDiff, pct>>)
      ELSE IF 100 * absDiff <= 25 * actual
        THEN IF diff > 0 THEN Message(<<"Overestimated", "by", "P%">>, <<pct>>)
                         ELSE Message(<<"Underestimated", "by", "P%">>, <<pct>>)
      ELSE IF 100 * absDiff <= 50 * actual
        THEN IF diff > 0
             THEN Message(<<"Significantly", "overestimated", "(P%", "too", "high)">>,
                          <<pct>>)
             ELSE Message(<<"Significantly", "underestimated", "(P%", "too", "low)">>,
                          <<pct>>)
      ELSE IF diff > 0
        THEN Message(<<"Way", "overestimated", "(N", "citations", "off)">>, <<absDiff>>)
        ELSE Message(<<"Way", "underestimated", "(N", "citations", "off)">>, <<absDiff>>)

\* ------------------------------------------------------------ loadNewPaper
\* Effect of the body of loadNewPaper up to its first await, for a caller that
\* passed the busy check: the view is switched to loading, the form is reset,
\* the round is discarded and attempt 0 issues its request.
StartLoad(owner) ==
  /\ isLoading' = TRUE
  /\ loading' = "block"
  /\ gameContainer' = "none"
  /\ yearGuess' = DefaultYear
  /\ citeGuess' = DefaultSlider
  /\ yearValue' = DefaultYear
  /\ citeValue' = sliderToCitations(DefaultSlider)
  /\ guessCard' = "block"
  /\ resultsCard' = "none"
  /\ currentPaper' = Null
  /\ loaders' = Append(loaders, [pc |-> "fetch", retry |-> 0, issued |-> 1,
                                 fails |-> 0, owner |-> owner])

\* The busy check at the top of loadNewPaper.
AlreadyLoadingUnguarded == FALSE
AlreadyLoading == isLoading

loadNewPaper(owner) ==
  IF AlreadyLoading
  THEN UNCHANGED <<isLoading, loading, gameContainer, yearGuess, citeGuess,
                   yearValue, citeValue, guessCard, resultsCard, currentPaper,
                   loaders>>
  ELSE StartLoad(owner)

\* ------------------------------------------------------------------- Init
\* The state when the script has run to its end: the globals are initialised
\* and the initial loadNewPaper() call stands at its first await.
Init ==
  /\ currentPaper = Null
  /\ roundNumber = 1
  /\ roundsPlayed = 0
  /\ totalScore = 0
  /\ roundScores = <<>>
  /\ isLoading = TRUE
  /\ loading = "block"
  /\ gameContainer = "none"
  /\ guessCard = "block"
  /\ resultsCard = "none"
  /\ yearGuess = DefaultYear
  /\ citeGuess = DefaultSlider
  /\ yearValue = DefaultYear
  /\ citeValue = sliderToCitations(DefaultSlider)
  /\ submitBtn = [disabled |-> FALSE]
  /\ paperImage = "none"
  /\ roundNumberDisplay = 1
  /\ roundsPlayedDisplay = 0
  /\ totalScoreDisplay = 0
  /\ results = Null
  /\ cacheCount = 0
  /\ cacheBadge = "none"
  /\ loaders = <<[pc |-> "fetch", retry |-> 0, issued |-> 1, fails |-> 0,
                  owner |-> [by |-> "init", epoch |-> 0, round |-> 1]]>>
  /\ submits = <<>>
  /\ cacheFetches = 0
  /\ alert = "none"
  /\ lastStep = [op |-> "init", busy |-> FALSE, info |-> Null]
  /\ tally = [scored |-> 0, added |-> 0, resets |-> 0, events |-> 0]

\* updateCacheStats() up to its await: one more /api/cache-stats request.
updateCacheStats == cacheFetches' = cacheFetches + 1

\* `retry < maxRetries - 1`: another attempt follows a failed one.
RetriesRemainOffByOne(retry) == retry < maxRetries
RetriesRemain(retry) == retry < maxRetries - 1

\* alert() of the last failed attempt: the else branch for a success=false
\* payload, the catch block for everything thrown.
LoadFailureAlert(kind) ==
  IF kind = "success_false" THEN AlertLoadError ELSE AlertNetworkError

IsLoader(i, pc) == i \in 1..Len(loaders) /\ loaders[i].pc = pc

\* /api/random-paper answers with success=true: the round is installed and
\* the image requested; the load waits for the image.
RandomPaperSuccess(i, data) ==
  /\ IsLoader(i, "fetch")
  /\ currentPaper' = [id |-> data.id, title |-> data.title, year |-> data.year,
                      cites |-> data.cites, image |-> data.image,
                      obj |-> loaders[i].owner]
  /\ paperImage' = data.image
  /\ loaders' = [loaders EXCEPT ![i].pc = "image"]
  /\ tally' = [tally EXCEPT !.scored = 0, !.added = 0]
  /\ alert' = "none"
  /\ lastStep' = Step("randomPaperSuccess", Null)
  /\ UNCHANGED <<roundNumber, roundsPlayed, totalScore, roundScores, isLoading,
                 viewVars, inputVars, submitBtn, displayVars, results,
                 cacheVars, submits>>

\* RandomPaperFailure whose last attempt returns without `isLoading = false`.
RandomPaperFailureStaysBusy(i, kind) ==
  /\ IsLoader(i, "fetch")
  /\ IF RetriesRemain(loaders[i].retry)
     THEN /\ loaders' = [loaders EXCEPT ![i].pc = "backoff", ![i].fails = @ + 1]
          /\ alert' = "none"
          /\ lastStep' = Step("randomPaperFailure", Null)
     ELSE /\ alert' = LoadFailureAlert(kind)
          /\ loaders' = RemoveAt(loaders, i)
          /\ lastStep' = Step("randomPaperFailure",
                              [result |-> "Failed", issued |-> loaders[i].issued,
                               fails |-> loaders[i].fails + 1])
  /\ UNCHANGED <<currentPaper, roundNumber, roundsPlayed, totalScore, roundScores,
                 isLoading, viewVars, inputVars, submitBtn, paperImage, displayVars,
                 results, cacheVars, submits, tally>>

\* One attempt fails: success=false payload, non-OK status, transport error
\* or the 30 s abort.  Either the backoff timer is started or the load gives up.
RandomPaperFailure(i, kind) ==
  /\ IsLoader(i, "fetch")
  /\ IF RetriesRemain(loaders[i].retry)
     THEN /\ loaders' = [loaders EXCEPT ![i].pc = "backoff", ![i].fails = @ + 1]
          /\ alert' = "none"
          /\ lastStep' = Step("randomPaperFailure", Null)
          /\ UNCHANGED isLoading
     ELSE /\ alert' = LoadFailureAlert(kind)
          /\ isLoading' = FALSE
          /\ loaders' = RemoveAt(loaders, i)
          /\ lastStep' = Step("randomPaperFailure",
                              [result |-> "Failed", issued |-> loaders[i].issued,
                               fails |-> loaders[i].fails + 1])
  /\ UNCHANGED <<currentPaper, roundNumber, roundsPlayed, totalScore, roundScores,
                 viewVars, inputVars, submitBtn, paperImage, displayVars, results,
                 cacheVars, submits, tally>>

\* The 1 s backoff timer fires: `continue`, retry++, loop test, next request.
\* A loop that runs out falls through to the assignment after it.
BackoffDone(i) ==
  /\ IsLoader(i, "backoff")
  /\ IF loaders[i].retry + 1 < maxRetries
     THEN /\ loaders' = [loaders EXCEPT ![i].pc = "fetch", ![i].retry = @ + 1,
                                        ![i].issued = @ + 1]
          /\ lastStep' = Step("backoffDone", Null)
          /\ UNCHANGED isLoading
     ELSE /\ isLoading' = FALSE
          /\ loaders' = RemoveAt(loaders, i)
          /\ lastStep' = Step("backoffDone",
                              [result |-> "Exhausted", issued |-> loaders[i].issued,
                               fails |-> loaders[i].fails])
  /\ alert' = "none"
  /\ UNCHANGED <<currentPaper, roundNumber, roundsPlayed, totalScore, roundScores,
                 viewVars, inputVars, submitBtn, paperImage, displayVars, results,
                 cacheVars, submits, tally>>

\* The image fires load or error: the game is shown, the tally displays are
\* refreshed, the cache badge is polled and the busy flag is dropped.
ShowGameKeepsLoading ==
  /\ loading' = "block"
  /\ gameContainer' = "grid"
ShowGame ==
  /\ loading' = "none"
  /\ gameContainer' = "grid"

\* ImageDone without its `return`: the retry loop goes on after the success.
ImageDoneNoReturn(i, event) ==
  /\ IsLoader(i, "image")
  /\ ShowGame
  /\ roundNumberDisplay' = roundNumber
  /\ roundsPlayedDisplay' = roundsPlayed
  /\ totalScoreDisplay' = totalScore
  /\ updateCacheStats
  /\ isLoading' = FALSE
  /\ loaders' = IF loaders[i].retry + 1 < maxRetries
                THEN [loaders EXCEPT ![i].pc = "fetch", ![i].retry = @ + 1,
                                     ![i].issued = @ + 1]
                ELSE RemoveAt(loaders, i)
  /\ alert' = "none"
  /\ lastStep' = Step("imageDone",
                      [result |-> "Ready", issued |-> loaders[i].issued,
                       fails |-> loaders[i].fails, event |-> event])
  /\ UNCHANGED <<currentPaper, roundNumber, roundsPlayed, totalScore, roundScores,
                 guessCard, resultsCard, inputVars, submitBtn, paperImage, results,
                 cacheCount, cacheBadge, submits, tally>>

\* ImageDone with `paperImage.onerror = reject`: an image error is thrown into
\* the catch block and handled as a failed attempt.
ImageDoneErrorRejects(i, event) ==
  /\ IsLoader(i, "image")
  /\ IF event = "error"
     THEN /\ loaders' = [loaders EXCEPT ![i].pc = "backoff", ![i].fails = @ + 1]
          /\ UNCHANGED <<isLoading, viewVars, displayVars, cacheFetches>>
          /\ lastStep' = Step("imageDone", Null)
     ELSE /\ ShowGame
          /\ roundNumberDisplay' = roundNumber
          /\ roundsPlayedDisplay' = roundsPlayed
          /\ totalScoreDisplay' = totalScore
          /\ updateCacheStats
          /\ isLoading' = FALSE
          /\ loaders' = RemoveAt(loaders, i)
          /\ lastStep' = Step("imageDone",
                              [result |-> "Ready", issued |-> loaders[i].issued,
                               fails |-> loaders[i].fails, event |-> event])
          /\ UNCHANGED <<guessCard, resultsCard>>
  /\ alert' = "none"
  /\ UNCHANGED <<currentPaper, roundNumber, roundsPlayed, totalScore, roundScores,
                 inputVars, submitBtn, paperImage, results,
                 cacheCount, cacheBadge, submits, tally>>

ImageDone(i, event) ==
  /\ IsLoader(i, "image")
  /\ ShowGame
  /\ roundNumberDisplay' = roundNumber
  /\ roundsPlayedDisplay' = roundsPlayed
  /\ totalScoreDisplay' = totalScore
  /\ updateCacheStats
  /\ isLoading' = FALSE
  /\ loaders' = RemoveAt(loaders, i)
  /\ alert' = "none"
  /\ lastStep' = Step("imageDone",
                      [result |-> "Ready", issued |-> loaders[i].issued,
                       fails |-> loaders[i].fails, event |-> event])
  /\ UNCHANGED <<currentPaper, roundNumber, roundsPlayed, totalScore, roundScores,
                 guessCard, resultsCard, inputVars, submitBtn, paperImage, results,
                 cacheCount, cacheBadge, submits, tally>>

\* ------------------------------------------------------------ submitGuess
\* submitGuess() up to its await: without a round it alerts and returns;
\* otherwise it reads the sliders, disables the button and posts the guess
\* together with the round's actual values.
submitGuess(op) ==
  /\ tally.events < MaxEvents
  /\ tally' = [tally EXCEPT !.events = @ + 1]
  /\ IF currentPaper = Null
     THEN /\ alert' = AlertNoPaper
          /\ UNCHANGED <<submitBtn, submits>>
     ELSE /\ alert' = "none"
          /\ submitBtn' = [disabled |-> TRUE]
          /\ submits' = Append(submits,
                          [year_guess |-> yearGuess,
                           cite_guess |-> sliderToCitations(citeGuess),
                           actual_year |-> currentPaper.year,
                           actual_cites |-> currentPaper.cites,
                           obj |-> currentPaper.obj])
  /\ lastStep' = Step(op, Null)
  /\ UNCHANGED <<gameVars, viewVars, inputVars, paperImage, displayVars, results,
                 cacheVars, loaders>>

\* click on submitBtn; a disabled button delivers no click.
SubmitClick ==
  /\ ~submitBtn.disabled
  /\ submitGuess("submitClick")

\* Enter on the year slider and on the citation slider.
YearEnter == submitGuess("yearEnter")
CiteEnter == submitGuess("citeEnter")

IsSubmit(j) == j \in 1..Len(submits)

\* The value of totalScore once NaN has been added to it: no score is
\* negative, and like NaN it is >= no score and stays what it is under +=.
NaNScore == -1

\* A field of a payload that the payload does not have.
Undefined == [undefined |-> TRUE]

\* `totalScore += roundScore`
AddScoreSubtracting(total, roundScore) == total - roundScore
AddScore(total, roundScore) ==
  IF total = NaNScore \/ roundScore = NaNScore THEN NaNScore
  ELSE total + roundScore

\* /api/submit-guess answers OK with a score payload.  The total is added
\* first; building the roundScores entry reads currentPaper.title, which
\* throws when the round has been discarded meanwhile: then the catch block
\* alerts.  The finally block enables the button in both cases.
SubmitScored(j, scoreData) ==
  /\ IsSubmit(j)
  /\ totalScore' = AddScore(totalScore, scoreData.total_score)
  /\ IF currentPaper = Null
     THEN /\ alert' = AlertScoreError
          /\ UNCHANGED <<roundScores, results, roundsPlayed, roundsPlayedDisplay,
                         totalScoreDisplay, guessCard, resultsCard>>
     ELSE /\ roundScores' = Append(roundScores,
                              [round |-> roundNumber,
                               yearScore |-> scoreData.year_score,
                               citeScore |-> scoreData.cite_score,
                               totalScore |-> scoreData.total_score,
                               paper |-> currentPaper.title])
          /\ results' = [resultTitle |-> currentPaper.title,
                         resultYear |-> currentPaper.year,
                         resultCites |-> currentPaper.cites,
                         yearFeedback |->
                           getYearFeedback(submits[j].year_guess, currentPaper.year),
                         citeFeedback |->
                           getCitationFeedback(submits[j].cite_guess, currentPaper.cites),
                         yearScoreDisplay |-> scoreData.year_score,
                         citeScoreDisplay |-> scoreData.cite_score,
                         roundScoreDisplay |-> scoreData.total_score,
                         paperLink |-> <<currentPaper.year, currentPaper.id>>]
          /\ roundsPlayed' = roundsPlayed + 1
          /\ roundsPlayedDisplay' = roundsPlayed + 1
          /\ totalScoreDisplay' = totalScore'
          /\ guessCard' = "none"
          /\ resultsCard' = "block"
          /\ alert' = "none"
  /\ submitBtn' = [disabled |-> FALSE]
  /\ submits' = RemoveAt(submits, j)
  /\ tally' = [tally EXCEPT !.added = @ + 1,
                            !.scored = IF currentPaper = Null THEN @ ELSE @ + 1]
  /\ lastStep' = Step("submitScored",
                      [sent |-> submits[j].obj,
                       current |-> IF currentPaper = Null THEN Null ELSE currentPaper.obj,
                       recorded |-> currentPaper # Null])
  /\ UNCHANGED <<currentPaper, roundNumber, isLoading, loading, gameContainer,
                 inputVars, paperImage, roundNumberDisplay, cacheVars, loaders>>

\* /api/submit-guess answers OK with a payload of success=false that carries
\* no score fields.  The code does not look at success: the three scores are
\* undefined, `totalScore += undefined` makes the total NaN, the entry is
\* pushed and the feedback texts are shown; then yearScore.toLocaleString()
\* throws, so the catch block alerts and the rest of the try block (the score
\* displays, the link, roundsPlayed, the cards) is skipped.  With the round
\* discarded meanwhile currentPaper.title throws before the push.
SubmitSuccessFalse(j) ==
  /\ IsSubmit(j)
  /\ totalScore' = AddScore(totalScore, NaNScore)
  /\ IF currentPaper = Null
     THEN UNCHANGED <<roundScores, results>>
     ELSE /\ roundScores' = Append(roundScores,
                              [round |-> roundNumber,
                               yearScore |-> Undefined,
                               citeScore |-> Undefined,
                               totalScore |-> Undefined,
                               paper |-> currentPaper.title])
          /\ results' =
               [resultTitle |-> currentPaper.title,
                resultYear |-> currentPaper.year,
                resultCites |-> currentPaper.cites,
                yearFeedback |->
                  getYearFeedback(submits[j].year_guess, currentPaper.year),
                citeFeedback |->
                  getCitationFeedback(submits[j].cite_guess, currentPaper.cites),
                yearScoreDisplay |->
                  IF results = Null THEN Undefined ELSE results.yearScoreDisplay,
                citeScoreDisplay |->
                  IF results = Null THEN Undefined ELSE results.citeScoreDisplay,
                roundScoreDisplay |->
                  IF results = Null THEN Undefined ELSE results.roundScoreDisplay,
                paperLink |->
                  IF results = Null THEN Undefined ELSE results.paperLink]
  /\ alert' = AlertScoreError
  /\ submitBtn' = [disabled |-> FALSE]
  /\ submits' = RemoveAt(submits, j)
  /\ lastStep' = Step("submitSuccessFalse", Null)
  /\ UNCHANGED <<currentPaper, roundNumber, roundsPlayed, isLoading, viewVars,
                 inputVars, paperImage, displayVars, cacheVars, loaders, tally>>

\* The submission fails before a payload is read (non-OK status, transport
\* error): catch alerts, finally enables the button.
SubmitFailed(j, kind) ==
  /\ IsSubmit(j)
  /\ alert' = AlertScoreError
  /\ submitBtn' = [disabled |-> FALSE]
  /\ submits' = RemoveAt(submits, j)
  /\ lastStep' = Step("submitFailed", Null)
  /\ UNCHANGED <<gameVars, viewVars, inputVars, paperImage, displayVars, results,
                 cacheVars, loaders, tally>>

\* ------------------------------------------------- nextRound and resetGame
nextRound ==
  /\ tally.events < MaxEvents
  /\ roundNumber' = roundNumber + 1
  /\ loadNewPaper([by |-> "nextRound", epoch |-> tally.resets,
                   round |-> roundNumber + 1])
  /\ alert' = "none"
  /\ lastStep' = Step("nextRound", Null)
  /\ tally' = [tally EXCEPT !.events = @ + 1]
  /\ UNCHANGED <<roundsPlayed, totalScore, roundScores, submitBtn, paperImage,
                 displayVars, results, cacheVars, submits>>

\* The four assignments of resetGame.
ResetTallyKeepingScore ==
  /\ roundNumber' = 1
  /\ roundsPlayed' = 0
  /\ totalScore' = totalScore
  /\ roundScores' = <<>>
ResetTally ==
  /\ roundNumber' = 1
  /\ roundsPlayed' = 0
  /\ totalScore' = 0
  /\ roundScores' = <<>>

\* resetGame(): confirm() is answered by the user.
resetGame(confirmed) ==
  IF confirmed
  THEN /\ tally.events < MaxEvents
       /\ ResetTally
       /\ loadNewPaper([by |-> "resetGame", epoch |-> tally.resets + 1, round |-> 1])
       /\ tally' = [tally EXCEPT !.resets = @ + 1, !.events = @ + 1]
       /\ alert' = "none"
       /\ lastStep' = Step("resetGame", Null)
       /\ UNCHANGED <<submitBtn, paperImage, displayVars, results, cacheVars,
                      submits>>
  ELSE /\ tally.events < MaxEvents
       /\ tally' = [tally EXCEPT !.events = @ + 1]
       /\ alert' = "none"
       /\ lastStep' = Step("resetDeclined", Null)
       /\ UNCHANGED <<gameVars, viewVars, inputVars, submitBtn, paperImage,
                      displayVars, results, cacheVars, loaders, submits>>

\* ----------------------------------------------------------- slider input
\* `input` on the year slider: the label follows the value.
YearInput(v) ==
  /\ tally.events < MaxEvents
  /\ v # yearGuess
  /\ tally' = [tally EXCEPT !.events = @ + 1]
  /\ yearGuess' = v
  /\ yearValue' = v
  /\ alert' = "none"
  /\ lastStep' = Step("yearInput", Null)
  /\ UNCHANGED <<gameVars, viewVars, citeGuess, citeValue, submitBtn, paperImage,
                 displayVars, results, cacheVars, loaders, submits>>

\* The citation label: the count, or thousands with one decimal and a k.
CiteLabel(citations) ==
  IF citations >= 1000 THEN <<(citations + 50) \div 100, "k">> ELSE citations

\* `input` on the citation slider.
CiteInput(v) ==
  /\ tally.events < MaxEvents
  /\ v # citeGuess
  /\ tally' = [tally EXCEPT !.events = @ + 1]
  /\ citeGuess' = v
  /\ citeValue' = CiteLabel(sliderToCitations(v))
  /\ alert' = "none"
  /\ lastStep' = Step("citeInput", Null)
  /\ UNCHANGED <<gameVars, viewVars, yearGuess, yearValue, submitBtn, paperImage,
                 displayVars, results, cacheVars, loaders, submits>>

\* -------------------------------------------------------- cache statistics
\* setInterval(updateCacheStats, ..) fires.
CachePoll ==
  /\ tally.events < MaxEvents
  /\ updateCacheStats
  /\ tally' = [tally EXCEPT !.events = @ + 1]
  /\ alert' = "none"
  /\ lastStep' = Step("cachePoll", Null)
  /\ UNCHANGED <<gameVars, viewVars, inputVars, submitBtn, paperImage, displayVars,
                 results, cacheCount, cacheBadge, loaders, submits>>

\* /api/cache-stats answers: the count is shown, the badge once it is positive.
CacheStatsResponse(n) ==
  /\ cacheFetches > 0
  /\ cacheFetches' = cacheFetches - 1
  /\ cacheCount' = n
  /\ cacheBadge' = IF n > 0 THEN "block" ELSE cacheBadge
  /\ alert' = "none"
  /\ lastStep' = Step("cacheStatsResponse", Null)
  /\ UNCHANGED <<gameVars, viewVars, inputVars, submitBtn, paperImage, displayVars,
                 results, loaders, submits, tally>>

\* /api/cache-stats fails: the catch block ignores it.
CacheStatsFailureAlerting ==
  /\ cacheFetches > 0
  /\ cacheFetches' = cacheFetches - 1
  /\ alert' = AlertNetworkError
  /\ lastStep' = Step("cacheStatsFailure", Null)
  /\ UNCHANGED <<gameVars, viewVars, inputVars, submitBtn, paperImage, displayVars,
                 results, cacheCount, cacheBadge, loaders, submits, tally>>
CacheStatsFailure ==
  /\ cacheFetches > 0
  /\ cacheFetches' = cacheFetches - 1
  /\ alert' = "none"
  /\ lastStep' = Step("cacheStatsFailure", Null)
  /\ UNCHANGED <<gameVars, viewVars, inputVars, submitBtn, paperImage, displayVars,
                 results, cacheCount, cacheBadge, loaders, submits, tally>>

\* ------------------------------------------------------------------- Next
Next ==
  \/ \E i \in 1..Len(loaders), data \in Papers : RandomPaperSuccess(i, data)
  \/ \E i \in 1..Len(loaders), kind \in FailureKinds : RandomPaperFailure(i, kind)
  \/ \E i \in 1..Len(loaders) : BackoffDone(i)
  \/ \E i \in 1..Len(loaders), event \in {"load", "error"} : ImageDone(i, event)
  \/ SubmitClick
  \/ YearEnter
  \/ CiteEnter
  \/ \E j \in 1..Len(submits), scoreData \in ScoreResponses : SubmitScored(j, scoreData)
  \/ \E j \in 1..Len(submits), kind \in SubmitFailureKinds : SubmitFailed(j, kind)
  \/ nextRound
  \/ \E confirmed \in BOOLEAN : resetGame(confirmed)
  \/ \E v \in YearChoices : YearInput(v)
  \/ \E v \in SliderChoices : CiteInput(v)
  \/ CachePoll
  \/ \E n \in CacheCounts : CacheStatsResponse(n)
  \/ CacheStatsFailure

Spec == Init /\ [][Next]_vars

\* The slider variant with a server that also answers a score submission
\* with a success=false payload.
NextPayload ==
  \/ Next
  \/ \E j \in 1..Len(submits) : SubmitSuccessFalse(j)

SpecPayload == Init /\ [][NextPayload]_vars

\* The environment answers: every request ends in a response, a transport
\* error or the 30 s abort, every backoff timer fires, every image fires load
\* or error.
LoaderStep ==
  \E i \in 1..Len(loaders) :
    \/ \E data \in Papers : RandomPaperSuccess(i, data)
    \/ \E kind \in FailureKinds : RandomPaperFailure(i, kind)
    \/ BackoffDone(i)
    \/ \E event \in {"load", "error"} : ImageDone(i, event)

FairSpec == Init /\ [][Next]_vars /\ WF_vars(LoaderStep)

\* ------------------------------------------------------ text-input variant
\* The first variant of the script (lines 1-252) reads the two guesses from
\* text fields and scores nothing: submitGuess validates the texts and shows
\* the feedback in the same step.  Its loader, its cache poll and its feedback
\* functions are the same code as the slider variant's (the total the slider
\* variant displays stays 0 here), so their actions are shared.  A field's
\* value is the sequence of its characters.
MinYear == 2000
MaxYear == 2024

AlertInvalidYear == "Please enter a valid year between 2000 and 2024"
AlertInvalidCites == "Please enter a valid number of citations (0 or more)"

\* Catalogue of the text variant's rounds.
TextPapers ==
  { [id |-> 1, title |-> "T1", year |-> 2015, cites |-> 200, image |-> "img1"],
    [id |-> 3, title |-> "T3", year |-> 2025, cites |-> 10, image |-> "img3"] }

\* Texts the user leaves in the year field and in the citation field.
YearTexts ==
  { <<>>, <<"1", "9", "9", "9">>, <<"2", "0", "1", "5">>, <<"2", "0", "2", "5">>,
    <<"2", "0", "2", "6">>, <<"2", "0", "1", "5", "a">> }
CiteTexts == { <<>>, <<"-", "5">>, <<"1", "0">>, <<"-", "0", ".", "5">> }

\* parseInt(string) with no radix: leading white space is skipped, a sign is
\* read, a 0x / 0X prefix selects radix 16, then the longest run of digits of
\* the radix is the number and whatever follows is ignored; no digit at all
\* gives NaN.  (-0 is 0 in every comparison made on the result.)
NaN == [nan |-> TRUE]
Number(n) == [nan |-> FALSE, value |-> n]
isNaN(x) == x.nan

WhiteSpace == {" ", "\t", "\n"}
DigitValue ==
  ("0" :> 0) @@ ("1" :> 1) @@ ("2" :> 2) @@ ("3" :> 3) @@ ("4" :> 4) @@
  ("5" :> 5) @@ ("6" :> 6) @@ ("7" :> 7) @@ ("8" :> 8) @@ ("9" :> 9) @@
  ("a" :> 10) @@ ("b" :> 11) @@ ("c" :> 12) @@ ("d" :> 13) @@ ("e" :> 14) @@
  ("f" :> 15) @@ ("A" :> 10) @@ ("B" :> 11) @@ ("C" :> 12) @@ ("D" :> 13) @@
  ("E" :> 14) @@ ("F" :> 15)

RECURSIVE TrimStart(_)
TrimStart(string) ==
  IF string # <<>> /\ Head(string) \in WhiteSpace
  THEN TrimStart(Tail(string)) ELSE string

RECURSIVE LeadingDigits(_, _)
LeadingDigits(string, radix) ==
  IF /\ string # <<>>
     /\ Head(string) \in DOMAIN DigitValue
     /\ DigitValue[Head(string)] < radix
  THEN <<Head(string)>> \o LeadingDigits(Tail(string), radix)
  ELSE <<>>

RECURSIVE DigitsValue(_, _)
DigitsValue(digits, radix) ==
  IF digits = <<>> THEN 0
  ELSE DigitsValue(SubSeq(digits, 1, Len(digits) - 1), radix) * radix
         + DigitValue[digits[Len(digits)]]

parseInt(string) ==
  LET trimmed == TrimStart(string)
      negative == trimmed # <<>> /\ Head(trimmed) = "-"
      unsigned == IF trimmed # <<>> /\ Head(trimmed) \in {"+", "-"}
                  THEN Tail(trimmed) ELSE trimmed
      hex == /\ Len(unsigned) >= 2
             /\ unsigned[1] = "0"
             /\ unsigned[2] \in {"x", "X"}
      radix == IF hex THEN 16 ELSE 10
      digits == LeadingDigits(IF hex THEN Tail(Tail(unsigned)) ELSE unsigned, radix)
  IN  IF digits = <<>> THEN NaN
      ELSE Number(IF negative THEN 0 - DigitsValue(digits, radix)
                  ELSE DigitsValue(digits, radix))

\* loadNewPaper of the text variant: the form reset empties the two fields.
TextStartLoad(owner) ==
  /\ isLoading' = TRUE
  /\ loading' = "block"
  /\ gameContainer' = "none"
  /\ yearGuess' = <<>>
  /\ citeGuess' = <<>>
  /\ guessCard' = "block"
  /\ resultsCard' = "none"
  /\ currentPaper' = Null
  /\ loaders' = Append(loaders, [pc |-> "fetch", retry |-> 0, issued |-> 1,
                                 fails |-> 0, owner |-> owner])

TextLoadNewPaper(owner) ==
  IF AlreadyLoading
  THEN UNCHANGED <<isLoading, loading, gameContainer, yearGuess, citeGuess,
                   guessCard, resultsCard, currentPaper, loaders>>
  ELSE TextStartLoad(owner)

\* The state when the text variant has run to its end.
InitText ==
  /\ currentPaper = Null
  /\ roundNumber = 1
  /\ roundsPlayed = 0
  /\ totalScore = 0
  /\ roundScores = <<>>
  /\ isLoading = TRUE
  /\ loading = "block"
  /\ gameContainer = "none"
  /\ guessCard = "block"
  /\ resultsCard = "none"
  /\ yearGuess = <<>>
  /\ citeGuess = <<>>
  /\ yearValue = Null
  /\ citeValue = Null
  /\ submitBtn = [disabled |-> FALSE]
  /\ paperImage = "none"
  /\ roundNumberDisplay = 1
  /\ roundsPlayedDisplay = 0
  /\ totalScoreDisplay = 0
  /\ results = Null
  /\ cacheCount = 0
  /\ cacheBadge = "none"
  /\ loaders = <<[pc |-> "fetch", retry |-> 0, issued |-> 1, fails |-> 0,
                  owner |-> [by |-> "init", epoch |-> 0, round |-> 1]]>>
  /\ submits = <<>>
  /\ cacheFetches = 0
  /\ alert = "none"
  /\ lastStep = [op |-> "init", busy |-> FALSE, info |-> Null]
  /\ tally = [scored |-> 0, added |-> 0, resets |-> 0, events |-> 0]

\* The year check of submitGuess.
YearInvalid(yearGuessValue) ==
  isNaN(yearGuessValue) \/ yearGuessValue.value < MinYear
    \/ yearGuessValue.value > MaxYear

\* The citation check of submitGuess.
CitesInvalid(citeGuessValue) ==
  isNaN(citeGuessValue) \/ citeGuessValue.value < 0

\* submitGuess of the text variant, from entry to return: it has no await.
\* Nothing in its try block throws once currentPaper is set, so the catch
\* block is not reached; finally leaves the button enabled.
TextSubmitGuess(op) ==
  /\ tally.events < MaxEvents
  /\ tally' = [tally EXCEPT !.events = @ + 1]
  /\ LET yearGuessValue == parseInt(yearGuess)
         citeGuessValue == parseInt(citeGuess)
     IN  IF currentPaper = Null
         THEN /\ alert' = AlertNoPaper
              /\ lastStep' = Step(op, [verdict |-> "no paper"])
              /\ UNCHANGED <<submitBtn, results, roundsPlayed, roundsPlayedDisplay,
                             guessCard, resultsCard>>
         ELSE IF YearInvalid(yearGuessValue)
         THEN /\ alert' = AlertInvalidYear
              /\ lastStep' = Step(op, [verdict |-> "rejected"])
              /\ UNCHANGED <<submitBtn, results, roundsPlayed, roundsPlayedDisplay,
                             guessCard, resultsCard>>
         ELSE IF CitesInvalid(citeGuessValue)
         THEN /\ alert' = AlertInvalidCites
              /\ lastStep' = Step(op, [verdict |-> "rejected"])
              /\ UNCHANGED <<submitBtn, results, roundsPlayed, roundsPlayedDisplay,
                             guessCard, resultsCard>>
         ELSE /\ results' =
                   [resultTitle |-> currentPaper.title,
                    resultYear |-> currentPaper.year,
                    resultCites |-> currentPaper.cites,
                    yearFeedback |->
                      getYearFeedback(yearGuessValue.value, currentPaper.year),
                    citeFeedback |->
                      getCitationFeedback(citeGuessValue.value, currentPaper.cites),
                    paperLink |-> <<currentPaper.year, currentPaper.id>>]
              /\ roundsPlayed' = roundsPlayed + 1
              /\ roundsPlayedDisplay' = roundsPlayed + 1
              /\ guessCard' = "none"
              /\ resultsCard' = "block"
              /\ submitBtn' = [disabled |-> FALSE]
              /\ alert' = "none"
              /\ lastStep' = Step(op, [verdict |-> "accepted"])
  /\ UNCHANGED <<currentPaper, roundNumber, totalScore, roundScores, isLoading,
                 loading, gameContainer, inputVars, paperImage, roundNumberDisplay,
                 totalScoreDisplay, cacheVars, loaders, submits>>

TextSubmitClick ==
  /\ ~submitBtn.disabled
  /\ TextSubmitGuess("submitClick")

\* Enter in the citation field submits.
TextCiteEnter == TextSubmitGuess("citeEnter")

\* Enter in the year field moves the focus to the citation field.
TextYearEnter ==
  /\ tally.events < MaxEvents
  /\ tally' = [tally EXCEPT !.events = @ + 1]
  /\ alert' = "none"
  /\ lastStep' = Step("yearEnter", Null)
  /\ UNCHANGED <<gameVars, viewVars, inputVars, submitBtn, paperImage, displayVars,
                 results, cacheVars, loaders, submits>>

TextNextRound ==
  /\ tally.events < MaxEvents
  /\ roundNumber' = roundNumber + 1
  /\ TextLoadNewPaper([by |-> "nextRound", epoch |-> tally.resets,
                       round |-> roundNumber + 1])
  /\ alert' = "none"
  /\ lastStep' = Step("nextRound", Null)
  /\ tally' = [tally EXCEPT !.events = @ + 1]
  /\ UNCHANGED <<roundsPlayed, totalScore, roundScores, yearValue, citeValue,
                 submitBtn, paperImage, displayVars, results, cacheVars, submits>>

\* The user edits the year field, the citation field.
YearType(text) ==
  /\ tally.events < MaxEvents
  /\ text # yearGuess
  /\ tally' = [tally EXCEPT !.events = @ + 1]
  /\ yearGuess' = text
  /\ alert' = "none"
  /\ lastStep' = Step("yearType", Null)
  /\ UNCHANGED <<gameVars, viewVars, citeGuess, yearValue, citeValue, submitBtn,
                 paperImage, displayVars, results, cacheVars, loaders, submits>>

CiteType(text) ==
  /\ tally.events < MaxEvents
  /\ text # citeGuess
  /\ tally' = [tally EXCEPT !.events = @ + 1]
  /\ citeGuess' = text
  /\ alert' = "none"
  /\ lastStep' = Step("citeType", Null)
  /\ UNCHANGED <<gameVars, viewVars, yearGuess, yearValue, citeValue, submitBtn,
                 paperImage, displayVars, results, cacheVars, loaders, submits>>

NextText ==
  \/ \E i \in 1..Len(loaders), data \in TextPapers : RandomPaperSuccess(i, data)
  \/ \E i \in 1..Len(loaders), kind \in FailureKinds : RandomPaperFailure(i, kind)
  \/ \E i \in 1..Len(loaders) : BackoffDone(i)
  \/ \E i \in 1..Len(loaders), event \in {"load", "error"} : ImageDone(i, event)
  \/ TextSubmitClick
  \/ TextCiteEnter
  \/ TextYearEnter
  \/ TextNextRound
  \/ \E text \in YearTexts : YearType(text)
  \/ \E text \in CiteTexts : CiteType(text)
  \/ CachePoll
  \/ \E n \in CacheCounts : CacheStatsResponse(n)
  \/ CacheStatsFailure

SpecText == InitText /\ [][NextText]_vars

\* ------------------------------------------------ the functions on their own
\* Everything but the record of the last step.
stateVars == <<gameVars, viewVars, inputVars, submitBtn, paperImage, displayVars,
               results, cacheVars, loaders, submits, alert, tally>>

\* Top of the citation slider's range.
SliderMax == 100

\* sliderToCitations applied to one slider position.
ApplySliderToCitations(sliderValue) ==
  /\ lastStep' = Step("sliderToCitations",
                      [sliderValue |-> sliderValue,
                       citations |-> sliderToCitations(sliderValue)])
  /\ UNCHANGED stateVars

NextSlider == \E sliderValue \in 0..SliderMax : ApplySliderToCitations(sliderValue)

SpecSlider == Init /\ [][NextSlider]_vars

\* Years the year feedback is computed for.
FeedbackYears == 2000..2025

\* Citation counts the citation feedback is computed for: guesses up to
\* MaxCites against actual counts on both sides of the `actual < 50` branch,
\* and the guess of 220 for an actual 200.
MaxCites == 160
CiteActuals == {0, 10, 49, 50, 51, 100}
CitationPairs == ((0..MaxCites) \X CiteActuals) \cup {<<220, 200>>}

ApplyYearFeedback(guess, actual) ==
  /\ lastStep' = Step("getYearFeedback",
                      [guess |-> guess, actual |-> actual,
                       message |-> getYearFeedback(guess, actual)])
  /\ UNCHANGED stateVars

ApplyCitationFeedback(guess, actual) ==
  /\ lastStep' = Step("getCitationFeedback",
                      [guess |-> guess, actual |-> actual,
                       message |-> getCitationFeedback(guess, actual)])
  /\ UNCHANGED stateVars

NextFeedback ==
  \/ \E guess \in FeedbackYears, actual \in FeedbackYears :
       ApplyYearFeedback(guess, actual)
  \/ \E pair \in CitationPairs : ApplyCitationFeedback(pair[1], pair[2])

SpecFeedback == Init /\ [][NextFeedback]_vars

\* ================================================================ claims
Outstanding == Cardinality({i \in 1..Len(loaders) : loaders[i].pc = "fetch"})
LoadCallOps == {"nextRound", "resetGame"}
SubmitOps == {"submitClick", "yearEnter", "citeEnter"}
LoadAlerts == {AlertLoadError, AlertNetworkError}
LoadEnded ==
  /\ lastStep.op \in {"randomPaperFailure", "backoffDone", "imageDone"}
  /\ lastStep.info # Null
LoaderFailed == ~isLoading /\ currentPaper = Null

\* C1: under every interleaving of the initial load, nextRound and confirmed
\* resetGame, at most one execution of loadNewPaper is inside its retry loop
\* and at most one /api/random-paper request is outstanding; a loadNewPaper
\* call made while isLoading is true changes neither isLoading, currentPaper,
\* the view state nor the requests.
C1_SingleLoad ==
  /\ [](Len(loaders) <= 1 /\ Outstanding <= 1)
  /\ [][(isLoading /\ lastStep'.op \in LoadCallOps)
          => UNCHANGED <<isLoading, currentPaper, viewVars, loaders>>]_vars

C1_Witness ==
  /\ lastStep.op \in LoadCallOps
  /\ lastStep.busy
  /\ Len(loaders) = 1

\* C2: a load whose three attempts all fail has issued exactly three requests
\* and ends Failed: isLoading false, currentPaper null, an alert raised, no
\* request outstanding; from Failed only nextRound or resetGame issues a
\* /api/random-paper request again.
C2_ThreeFailures ==
  /\ []((LoadEnded /\ lastStep.info.fails = maxRetries)
          => /\ lastStep.info.result = "Failed"
             /\ lastStep.info.issued = 3
             /\ ~isLoading
             /\ currentPaper = Null
             /\ alert \in LoadAlerts
             /\ loaders = <<>>)
  /\ []((LoadEnded /\ lastStep.info.result # "Ready")
          => lastStep.info.fails = maxRetries)
  /\ [][(LoaderFailed /\ Outstanding' > 0) => lastStep'.op \in LoadCallOps]_vars

C2_Witness ==
  /\ LoadEnded
  /\ lastStep.info.fails = maxRetries
  /\ lastStep.info.result = "Failed"
  /\ lastStep.info.issued = 3

\* C3: within one load no request is issued after the first success=true
\* response: a load whose attempt k is the first to succeed issues exactly k
\* requests (k <= 3) and ends Ready (isLoading false, currentPaper set) with
\* no alert; once a load waits for its image it issues no request.
C3_StopAtSuccess ==
  /\ [](\A i \in 1..Len(loaders) :
          loaders[i].pc = "image"
            => /\ loaders[i].issued = loaders[i].fails + 1
               /\ isLoading
               /\ currentPaper # Null)
  /\ []((LoadEnded /\ lastStep.info.result = "Ready")
          => /\ lastStep.info.issued = lastStep.info.fails + 1
             /\ lastStep.info.issued \in 1..maxRetries
             /\ ~isLoading
             /\ currentPaper # Null
             /\ alert = "none")
  /\ [][(\E i \in 1..Len(loaders) : loaders[i].pc = "image")
          => Outstanding' = 0]_vars

C3_Witness ==
  /\ LoadEnded
  /\ lastStep.info.result = "Ready"
  /\ lastStep.info.fails = 1
  /\ lastStep.info.issued = 2

\* C4: each loaded round is scored at most once: for one round roundsPlayed
\* is incremented at most once and at most one round score is added to
\* totalScore, whatever submit events arrive.
C4_ScoredOnce == tally.scored <= 1 /\ tally.added <= 1

\* C5: whenever submitGuess adds a score or records a result, currentPaper is
\* the round whose actual values were sent in that submission's request.
C5_ScoredAgainstOwnRound ==
  lastStep.op = "submitScored" => lastStep.info.current = lastStep.info.sent

\* C6 (as claimed): right after a confirmed resetGame in any state the tally
\* is 1, 0, 0, empty and a load started by this reset is in progress with
\* currentPaper null.
ThisReset == [by |-> "resetGame", epoch |-> tally.resets, round |-> 1]

C6_ResetStartsLoad ==
  lastStep.op = "resetGame"
    => /\ roundNumber = 1
       /\ roundsPlayed = 0
       /\ totalScore = 0
       /\ roundScores = <<>>
       /\ isLoading
       /\ currentPaper = Null
       /\ \E i \in 1..Len(loaders) : loaders[i].owner = ThisReset

\* C6 (amended): right after a confirmed resetGame the tally is 1, 0, 0,
\* empty and a load is in progress; when no load was in progress at the reset,
\* that load is the one this reset started, at its first request, and
\* currentPaper is null.
C6_ResetAmended ==
  lastStep.op = "resetGame"
    => /\ roundNumber = 1
       /\ roundsPlayed = 0
       /\ totalScore = 0
       /\ roundScores = <<>>
       /\ isLoading
       /\ Len(loaders) = 1
       /\ ~lastStep.busy
            => /\ currentPaper = Null
               /\ loaders[1].owner = ThisReset
               /\ loaders[1].pc = "fetch"
               /\ loaders[1].retry = 0

C6_Witness ==
  /\ lastStep.op = "resetGame"
  /\ ~lastStep.busy
  /\ results # Null
  /\ totalScoreDisplay > 0

\* C7: in every step other than a confirmed resetGame roundNumber,
\* roundsPlayed and totalScore do not decrease; a confirmed resetGame sets
\* them to 1, 0 and 0.
C7_Monotone ==
  /\ [][lastStep'.op # "resetGame"
          => /\ roundNumber' >= roundNumber
             /\ roundsPlayed' >= roundsPlayed
             /\ totalScore' >= totalScore]_vars
  /\ [][lastStep'.op = "resetGame"
          => /\ roundNumber' = 1
             /\ roundsPlayed' = 0
             /\ totalScore' = 0]_vars

C7_Witness ==
  /\ roundNumber > 1
  /\ roundsPlayed > 0
  /\ totalScore > 0
  /\ lastStep.op = "submitScored"

\* C8: totalScore equals the sum, over the rounds scored since the last
\* reset, of year_score + cite_score of that round.
RECURSIVE SumAxisScores(_)
SumAxisScores(scores) ==
  IF scores = <<>> THEN 0
  ELSE Head(scores).yearScore + Head(scores).citeScore + SumAxisScores(Tail(scores))

C8_TotalIsSumOfAxisScores == totalScore = SumAxisScores(roundScores)

\* C9: a submitGuess event while a load is in progress (isLoading true) or
\* after the loader ended Failed sends no /api/submit-guess request and
\* changes neither roundsPlayed, totalScore nor the cards.
C9_NoSubmitUnlessReady ==
  [][((isLoading \/ LoaderFailed) /\ lastStep'.op \in SubmitOps)
       => UNCHANGED <<submits, roundsPlayed, totalScore, guessCard, resultsCard>>]_vars

\* C10: isLoading implies the loading indicator is shown and the game
\* container hidden; when a load completes successfully (isLoading becomes
\* false with currentPaper set) the indicator is hidden and the container
\* shown.
C10_LoadingView ==
  /\ [](isLoading => (loading = "block" /\ gameContainer = "none"))
  /\ [][(isLoading /\ ~isLoading' /\ currentPaper' # Null)
          => (loading' = "none" /\ gameContainer' = "grid")]_vars

C10_Witness ==
  /\ lastStep.op = "imageDone"
  /\ ~isLoading
  /\ currentPaper # Null
  /\ gameContainer = "grid"

\* C11: whenever the loader becomes Ready, currentPaper is the payload of the
\* successful response of that same load, the guess card is shown, the
\* results card hidden and the sliders hold their defaults (year 2012,
\* citation slider 50), whatever input or submit events occurred during the
\* load.
C11_ReadyIsFresh ==
  /\ [](lastStep.op = "imageDone"
          => /\ currentPaper # Null
             /\ guessCard = "block"
             /\ resultsCard = "none"
             /\ yearGuess = DefaultYear
             /\ citeGuess = DefaultSlider)
  /\ [][lastStep'.op = "imageDone"
          => \E i \in 1..Len(loaders) :
               /\ loaders[i].pc = "image"
               /\ currentPaper'.obj = loaders[i].owner]_vars

\* C15: the slider transform reaches its cap at the top of the slider range:
\* sliderToCitations(100) = 10000.
C15_CapAtTop ==
  (lastStep.op = "sliderToCitations" /\ lastStep.info.sliderValue = 100)
    => lastStep.info.citations = 10000

\* C16: for slider positions s <= t in 0..100 sliderToCitations(s) <=
\* sliderToCitations(t); sliderToCitations(0) = 0; every value lies in
\* 0..10000.
C16_MonotoneCapped ==
  /\ [](lastStep.op = "sliderToCitations"
          => /\ lastStep.info.citations >= 0
             /\ lastStep.info.citations <= 10000
             /\ lastStep.info.sliderValue = 0 => lastStep.info.citations = 0)
  /\ [][(/\ lastStep.op = "sliderToCitations"
         /\ lastStep'.op = "sliderToCitations"
         /\ lastStep.info.sliderValue <= lastStep'.info.sliderValue)
          => lastStep.info.citations <= lastStep'.info.citations]_vars

C16_Witness ==
  /\ lastStep.op = "sliderToCitations"
  /\ lastStep.info.sliderValue = 100
  /\ lastStep.info.citations = 1474

\* Does the message contain this word?
Says(message, word) ==
  \E k \in 1..Len(message.words) : message.words[k] = word

\* The band |guess - actual| falls in when actual < 50, and the band
\* 100 * |guess - actual| falls in against 10, 25 and 50 times actual.
ExpectedCitationBand(guess, actual) ==
  LET absDiff == Abs(guess - actual)
  IN  IF guess = actual THEN "exact"
      ELSE IF actual < 50
        THEN IF absDiff <= 5 THEN "within 5"
             ELSE IF absDiff <= 20 THEN "within 20" ELSE "beyond 20"
      ELSE IF 100 * absDiff <= 10 * actual THEN "within 10%"
      ELSE IF 100 * absDiff <= 25 * actual THEN "within 25%"
      ELSE IF 100 * absDiff <= 50 * actual THEN "within 50%"
      ELSE "beyond 50%"

\* The wordings of each band, for an overestimate and an underestimate.
CitationWordings ==
  [ band \in {"exact", "within 5", "within 20", "beyond 20", "within 10%",
              "within 25%", "within 50%", "beyond 50%"} |->
      CASE band = "exact" -> {<<"Exactly", "right!">>}
        [] band = "within 5" ->
             {<<"N", "citations", "too", "high", "(very", "close!)">>,
              <<"N", "citations", "too", "low", "(very", "close!)">>}
        [] band = "within 20" ->
             {<<"N", "citations", "too", "high">>, <<"N", "citations", "too", "low">>}
        [] band = "beyond 20" ->
             {<<"Overestimated", "by", "N", "citations">>,
              <<"Underestimated", "by", "N", "citations">>}
        [] band = "within 10%" ->
             {<<"Slightly", "overestimated", "(N", "citations,", "P%", "off)">>,
              <<"Slightly", "underestimated", "(N", "citations,", "P%", "off)">>}
        [] band = "within 25%" ->
             {<<"Overestimated", "by", "P%">>, <<"Underestimated", "by", "P%">>}
        [] band = "within 50%" ->
             {<<"Significantly", "overestimated", "(P%", "too", "high)">>,
              <<"Significantly", "underestimated", "(P%", "too", "low)">>}
        [] band = "beyond 50%" ->
             {<<"Way", "overestimated", "(N", "citations", "off)">>,
              <<"Way", "underestimated", "(N", "citations", "off)">>} ]

SaysOver(message) ==
  \E word \in {"high", "high)", "overestimated", "Overestimated"} : Says(message, word)
SaysUnder(message) ==
  \E word \in {"low", "low)", "underestimated", "Underestimated"} : Says(message, word)

\* C17: getCitationFeedback returns the exact message iff guess = actual;
\* otherwise its band is decided by |guess - actual| against 5 and 20 when
\* actual < 50 (also for actual = 0) and by 100 * |guess - actual| against 10,
\* 25 and 50 times actual when actual >= 50; the wording is the over / too
\* high one iff guess > actual.
C17_CitationBands ==
  lastStep.op = "getCitationFeedback"
    => LET guess == lastStep.info.guess
           actual == lastStep.info.actual
           message == lastStep.info.message
       IN  /\ message.words = <<"Exactly", "right!">> <=> guess = actual
           /\ message.words \in CitationWordings[ExpectedCitationBand(guess, actual)]
           /\ guess # actual
                => /\ SaysOver(message) <=> guess > actual
                   /\ SaysUnder(message) <=> guess < actual

C17_Witness ==
  /\ lastStep.op = "getCitationFeedback"
  /\ lastStep.info.guess = 220
  /\ lastStep.info.actual = 200
  /\ lastStep.info.message =
       Message(<<"Slightly", "overestimated", "(N", "citations,", "P%", "off)">>,
               <<20, 10>>)

\* The six bands of |guess - actual| for the year.
YearBand(absDiff) ==
  IF absDiff = 0 THEN 0
  ELSE IF absDiff = 1 THEN 1
  ELSE IF absDiff <= 3 THEN 2
  ELSE IF absDiff <= 5 THEN 3
  ELSE IF absDiff <= 10 THEN 4
  ELSE 5

IsYearStep(step) == step.op = "getYearFeedback"

\* C18: each of the six bands {0, 1, 2-3, 4-5, 6-10, >10} of |guess - actual|
\* has its own year message: two guesses in the same direction whose
\* differences lie in different bands get messages of different wording.
C18_BandsDistinct ==
  [][(/\ IsYearStep(lastStep) /\ IsYearStep(lastStep')
      /\ lastStep.info.actual = lastStep'.info.actual
      /\ (lastStep.info.guess > lastStep.info.actual)
           <=> (lastStep'.info.guess > lastStep'.info.actual)
      /\ YearBand(Abs(lastStep.info.guess - lastStep.info.actual))
           # YearBand(Abs(lastStep'.info.guess - lastStep'.info.actual)))
       => lastStep.info.message.words # lastStep'.info.message.words]_vars

\* The message with its direction word blanked.
WithoutDirection(message) ==
  [message EXCEPT !.words = [k \in 1..Len(message.words) |->
                               IF message.words[k] \in {"recent", "old"}
                               THEN "DIR" ELSE message.words[k]]]

\* C19: getYearFeedback(g, a) is the perfect message iff g = a; for g # a it
\* says `too recent` iff g > a and `too old` iff g < a; getYearFeedback(y+1, y)
\* and getYearFeedback(y-1, y) are the same but for the direction word.
C19_YearDirection ==
  /\ [](IsYearStep(lastStep)
          => LET guess == lastStep.info.guess
                 actual == lastStep.info.actual
                 message == lastStep.info.message
             IN  /\ message = Message(<<"Perfect!", "Spot", "on!">>, <<>>)
                      <=> guess = actual
                 /\ guess # actual
                      => /\ Says(message, "too")
                         /\ Says(message, "recent") <=> guess > actual
                         /\ Says(message, "old") <=> guess < actual)
  /\ [][(/\ IsYearStep(lastStep) /\ IsYearStep(lastStep')
         /\ lastStep.info.actual = lastStep'.info.actual
         /\ lastStep.info.guess = lastStep.info.actual + 1
         /\ lastStep'.info.guess = lastStep.info.actual - 1)
          => /\ WithoutDirection(lastStep.info.message)
                  = WithoutDirection(lastStep'.info.message)
             /\ lastStep.info.message # lastStep'.info.message]_vars

C19_Witness ==
  /\ IsYearStep(lastStep)
  /\ lastStep.info.guess = lastStep.info.actual - 1
  /\ lastStep.info.message = Message(<<"1", "year", "too", "old">>, <<>>)

\* C13: after a success=true payload the load reaches the same Ready state
\* whether the image fires load or error: isLoading false, the game shown,
\* currentPaper the payload of this load; the step depends on nothing but the
\* state before it, counts no failed attempt, starts no retry and alerts
\* nothing.
C13_ImageErrorIsReady ==
  [][lastStep'.op = "imageDone"
       => /\ ~isLoading'
          /\ loading' = "none"
          /\ gameContainer' = "grid"
          /\ currentPaper' # Null
          /\ roundNumberDisplay' = roundNumber
          /\ roundsPlayedDisplay' = roundsPlayed
          /\ totalScoreDisplay' = totalScore
          /\ cacheFetches' = cacheFetches + 1
          /\ alert' = "none"
          /\ loaders' = <<>>
          /\ UNCHANGED <<currentPaper, roundNumber, roundsPlayed, totalScore,
                         roundScores, guessCard, resultsCard, inputVars, submitBtn,
                         paperImage, results, cacheCount, cacheBadge, submits>>
          /\ lastStep'.info # Null
          /\ lastStep'.info.result = "Ready"
          /\ \E i \in 1..Len(loaders) :
               /\ loaders[i].pc = "image"
               /\ currentPaper.obj = loaders[i].owner
               /\ lastStep'.info.fails = loaders[i].fails
               /\ lastStep'.info.issued = loaders[i].issued]_vars

C13_Witness ==
  /\ lastStep.op = "imageDone"
  /\ lastStep.info.event = "error"
  /\ ~isLoading
  /\ gameContainer = "grid"
  /\ currentPaper # Null

CacheOps == {"cachePoll", "cacheStatsResponse", "cacheStatsFailure"}

\* C20: a run of updateCacheStats started by the interval timer, in its
\* request, its response and its failure, at any point of a load or a
\* submission, leaves currentPaper, isLoading, roundNumber, roundsPlayed,
\* totalScore and the loading / game / guess / results view unchanged and
\* raises no alert.
C20_CachePollFrame ==
  [][lastStep'.op \in CacheOps
       => /\ UNCHANGED <<currentPaper, isLoading, roundNumber, roundsPlayed,
                         totalScore, viewVars>>
          /\ alert' = "none"]_vars

C20_Witness ==
  /\ lastStep.op = "cacheStatsFailure"
  /\ isLoading
  /\ submits # <<>>

\* C14: when the environment answers every request, backoff timer and image,
\* every started load ends Ready or Failed with isLoading false: the busy
\* flag is never left set, so a later nextRound or resetGame starts a load.
C14_LoadTerminates ==
  isLoading ~> (/\ ~isLoading
                /\ LoadEnded
                /\ lastStep.info.result \in {"Ready", "Failed"})

C14_Witness ==
  /\ roundNumber > 1
  /\ LoadEnded
  /\ lastStep.busy
  /\ ~isLoading
  /\ loaders = <<>>

\* What a field's text denotes: a numeral is an optional minus sign, decimal
\* digits and optionally a point followed by decimal digits.
DecimalDigits == {"0", "1", "2", "3", "4", "5", "6", "7", "8", "9"}
Unsigned(text) == IF text # <<>> /\ Head(text) = "-" THEN Tail(text) ELSE text
IntegerDigits(text) == LeadingDigits(Unsigned(text), 10)
Fraction(text) ==
  SubSeq(Unsigned(text), Len(IntegerDigits(text)) + 1, Len(Unsigned(text)))
IsNumeral(text) ==
  /\ IntegerDigits(text) # <<>>
  /\ \/ Fraction(text) = <<>>
     \/ /\ Len(Fraction(text)) >= 2
        /\ Head(Fraction(text)) = "."
        /\ \A k \in 2..Len(Fraction(text)) : Fraction(text)[k] \in DecimalDigits
IntegerPart(text) == DigitsValue(IntegerDigits(text), 10)
FractionIsZero(text) ==
  \A k \in 2..Len(Fraction(text)) : Fraction(text)[k] = "0"
IsNegative(text) ==
  /\ IsNumeral(text)
  /\ Head(text) = "-"
  /\ IntegerPart(text) > 0 \/ ~FractionIsZero(text)

\* A non-numeric year or a year outside 2000..2025.
YearMustBeRejected(text) ==
  \/ ~IsNumeral(text)
  \/ IsNegative(text)
  \/ IntegerPart(text) < 2000
  \/ IntegerPart(text) > 2025
  \/ IntegerPart(text) = 2025 /\ ~FractionIsZero(text)

\* A non-numeric or negative citation count.
CitesMustBeRejected(text) == ~IsNumeral(text) \/ IsNegative(text)

TextSubmitOps == {"submitClick", "citeEnter"}

\* C12: in the text-input variant submitGuess with a non-numeric year, a year
\* outside 2000..2025 or a non-numeric or negative citation count is rejected
\* in the same step: an error is raised, no request is made, and roundsPlayed,
\* currentPaper, the cards and the fields are unchanged, so the round can
\* still be guessed.
C12_InvalidGuessRejected ==
  [][(/\ lastStep'.op \in TextSubmitOps
      /\ currentPaper # Null
      /\ YearMustBeRejected(yearGuess) \/ CitesMustBeRejected(citeGuess))
       => /\ alert' \in {AlertInvalidYear, AlertInvalidCites}
          /\ UNCHANGED <<roundsPlayed, currentPaper, viewVars, yearGuess, citeGuess,
                         loaders, submits, cacheFetches>>]_vars

FailedSubmitOps == {"submitFailed", "submitSuccessFalse"}

\* C21: a score submission that ends in a transport error, a non-OK status or
\* a success=false payload without score fields leaves roundsPlayed,
\* totalScore, roundScores and the two cards as they were and enables the
\* submit button, so the round can be submitted again.
C21_FailedSubmitKeepsRound ==
  [][lastStep'.op \in FailedSubmitOps
       => /\ UNCHANGED <<roundsPlayed, totalScore, roundScores, guessCard,
                         resultsCard>>
          /\ ~submitBtn'.disabled]_vars

RECURSIVE SumTotals(_)
SumTotals(scores) ==
  IF scores = <<>> THEN 0
  ELSE Head(scores).totalScore + SumTotals(Tail(scores))

\* C22: whenever no submitGuess is waiting for its response, roundScores has
\* one entry per round played and totalScore is the sum of the entries'
\* totalScore (0 when no round has been played), under any interleaving of
\* submissions, loads and confirmed resets.
C22_TallyConsistent ==
  submits = <<>>
    => /\ Len(roundScores) = roundsPlayed
       /\ totalScore = SumTotals(roundScores)
       /\ roundsPlayed = 0 => totalScore = 0

\* The text is the plain decimal numeral of this non-negative integer.
Denotes(text, n) ==
  /\ IsNumeral(text)
  /\ Head(text) # "-"
  /\ Fraction(text) = <<>>
  /\ IntegerPart(text) = n

\* C23: in the text-input variant, for a round whose year lies in 2000..2025
\* the guess equal to that year (with a valid citation count) passes
\* validation and submitGuess shows the perfect year feedback.
C23_PerfectGuessable ==
  [][(/\ lastStep'.op \in TextSubmitOps
      /\ currentPaper # Null
      /\ currentPaper.year \in 2000..2025
      /\ Denotes(yearGuess, currentPaper.year)
      /\ ~CitesMustBeRejected(citeGuess))
       => /\ alert' = "none"
          /\ results' # Null
          /\ results'.yearFeedback = Message(<<"Perfect!", "Spot", "on!">>, <<>>)
          /\ resultsCard' = "block"]_vars

====
